---- MODULE Spec2Model ----
(***************************************************************************)
(* User-drift pipeline of reddit-network-analysis:                         *)
(*   scripts/compute_user_drift_paths.py  (path reconstruction) writes     *)
(*   user_paths.csv, scripts/build_transition_graph.py (transition         *)
(*   aggregator and graph build) reads it.                                 *)
(* Authors and subreddits are numbered in their sort order (the order      *)
(* pandas gives the strings); timestamps are epoch seconds.                *)
(***************************************************************************)
EXTENDS Integers, Sequences, FiniteSets, TLC

\* ------------------------------------------------------------------ bounds
NumAuthors == 2
NumSubs == 3
TicksPerDay == 2
MaxTick == 3
MaxRecords == 3
MaxMinComments == 2

\* pandas Timedelta.days: whole days of 86400 seconds
SecondsPerDay == 86400

Authors == 1..NumAuthors
Subs == 1..NumSubs
Times == {(k * SecondsPerDay) \div TicksPerDay : k \in 0..MaxTick}
\* --seed-subs values tried, as the entries between the commas (or the lines
\* of the file), Blank an entry of white space only: one seed subreddit; two
\* seed subreddits and a blank entry; the empty string; a lone comma.
Blank == 0
SeedSubsArgs == {<<1>>, <<1, Blank, 2>>, <<Blank>>, <<Blank, Blank>>}
MinCommentsArgs == 1..MaxMinComments

\* Scenario A of the specification: S = subreddit 1 (seed), X = subreddit 3;
\* u1 posts in X at day -10 and S at day 0, u2 in X at day -5 and S at day 0,
\* u3 in S at day 0.
ScenarioA ==
    << [author |-> 1, subreddit |-> 3, created_utc |-> 0],
       [author |-> 1, subreddit |-> 1, created_utc |-> 10 * SecondsPerDay],
       [author |-> 2, subreddit |-> 3, created_utc |-> 5 * SecondsPerDay],
       [author |-> 2, subreddit |-> 1, created_utc |-> 10 * SecondsPerDay],
       [author |-> 3, subreddit |-> 1, created_utc |-> 10 * SecondsPerDay] >>

\* Scenario C of the specification as a path table: A = subreddit 1,
\* B = subreddit 2; author 1 goes A -> B three times, author 2 once.
ScenarioC ==
    [i \in 1..8 |->
        [author |-> IF i <= 6 THEN 1 ELSE 2,
         subreddit |-> IF i % 2 = 1 THEN 1 ELSE 2,
         first_ts_here |-> 0,
         comment_count |-> 1,
         rel_days |-> IF i <= 6 THEN 6 - i ELSE 8 - i]]

VARIABLES
    pc,            \* position in the two scripts
    SEED_SUBS,     \* compute_user_drift_paths: parsed --seed-subs
    min_comments,  \* compute_user_drift_paths: args.min_comments
    records,       \* compute_user_drift_paths: records read from the JSONL files
    seed_df,       \* compute_user_drift_paths: one T0 row per seed poster
    agg,           \* compute_user_drift_paths: pre-T0 rows per (author, subreddit)
    out,           \* compute_user_drift_paths: rows written to user_paths.csv
    weight,         \* build_transition_graph: args.weight
    df_user_sorted, \* build_transition_graph: the path table, sorted
    done_groups,    \* build_transition_graph: author groups the loop has handled
    edge_users,     \* build_transition_graph: (A,B) -> set of authors
    edge_trans,     \* build_transition_graph: (A,B) -> number of transitions
    node_users,     \* build_transition_graph: subreddit -> set of authors
    first_entries,  \* build_transition_graph: subreddit -> number of first entries
    G,              \* build_transition_graph: the graph written
    seed_subs_arg,  \* compute_user_drift_paths: args.seed_subs, its entries
    script,         \* which of the two path scripts runs
    bins,           \* compute_user_drift_paths / user_drift_paths: args.bins
    aggregate_bins, \* aggregate_bins.csv
    columns,        \* the columns of user_paths.csv
    SEEDS,          \* filter_seed_cohort: the seed subreddits
    BAD,            \* filter_seed_cohort: the ignored user names
    scanned,        \* filter_seed_cohort: the lines of the dumps scanned so far
    authors,        \* filter_seed_cohort: authors
    cout,           \* filter_seed_cohort: the lines written to the cohort file
    userlist,       \* filter_seed_cohort: the userlist file
    max_lines_arg,  \* filter_seed / filter_cohort: --max-lines as given, <<>> if absent
    MAX_LINES,      \* filter_seed / filter_cohort: MAX_LINES
    USERS,          \* filter_cohort: USERS
    cohort_rows     \* make_windowed_graph: rows (uid, subreddit, ts)

pathvars == <<SEED_SUBS, min_comments, records, seed_df, agg, out, columns>>
graphvars == <<weight, df_user_sorted, done_groups,
               edge_users, edge_trans, node_users, first_entries, G>>
argvars == <<seed_subs_arg, script, bins>>
cohortvars == <<SEEDS, BAD, scanned, authors, cout, userlist>>
filtervars == <<max_lines_arg, MAX_LINES, USERS>>
restvars == <<argvars, aggregate_bins, cohortvars, filtervars, cohort_rows>>
vars == <<pc, pathvars, graphvars, restvars>>

InputRecords == [author : Authors, subreddit : Subs, created_utc : Times]

\* ------------------------------------------------------- pandas operations
Range(s) == {s[i] : i \in DOMAIN s}

Min(S) == CHOOSE x \in S : \A y \in S : x <= y

LexLess(k1, k2) == k1[1] < k2[1] \/ (k1[1] = k2[1] /\ k1[2] < k2[2])

\* (variant of SortValues: rows with equal keys come out in reverse order)
SortValues_TiesReversed(rows, keys) ==
    LET n == Len(rows)
        Rank(i) == Cardinality({j \in 1..n :
                        LexLess(keys[j], keys[i]) \/ (keys[j] = keys[i] /\ j > i)}) + 1
    IN  [p \in 1..n |-> rows[CHOOSE i \in 1..n : Rank(i) = p]]

\* DataFrame.sort_values on two columns (a stable lexsort): keys[i] is the
\* pair of sort keys of row i; rows with equal keys keep their order.
SortValues(rows, keys) ==
    LET n == Len(rows)
        Rank(i) == Cardinality({j \in 1..n :
                        LexLess(keys[j], keys[i]) \/ (keys[j] = keys[i] /\ j < i)}) + 1
    IN  [p \in 1..n |-> rows[CHOOSE i \in 1..n : Rank(i) = p]]

\* DataFrame.drop_duplicates("author", keep="first")
DropDuplicatesAuthor(rows) ==
    LET Keep(i) == \A j \in 1..(i - 1) : rows[j].author # rows[i].author
        idx == {i \in DOMAIN rows : Keep(i)}
        Nth(p) == CHOOSE i \in idx : Cardinality({j \in idx : j < i}) = p - 1
    IN  [p \in 1..Cardinality(idx) |-> rows[Nth(p)]]

IsPrefix(s, t) == Len(s) <= Len(t) /\ \A i \in DOMAIN s : s[i] = t[i]

\* (variant of MergeFirstSeedTs: a left join whose missing first_seed_ts is
\* filled with the latest one)
MergeFirstSeedTs_LeftFilled(rows, seeddf) ==
    LET T0Of(a) == (CHOOSE i \in DOMAIN seeddf : seeddf[i].author = a)
        Known(a) == \E i \in DOMAIN seeddf : seeddf[i].author = a
        latest == CHOOSE t \in {seeddf[i].first_seed_ts : i \in DOMAIN seeddf} :
                      \A i \in DOMAIN seeddf : seeddf[i].first_seed_ts <= t
    IN  [i \in DOMAIN rows |->
            [f \in DOMAIN rows[i] \cup {"first_seed_ts"} |->
                IF f = "first_seed_ts"
                THEN (IF Known(rows[i].author)
                      THEN seeddf[T0Of(rows[i].author)].first_seed_ts
                      ELSE latest)
                ELSE rows[i][f]]]

\* DataFrame.merge(seed_df[["author", "first_seed_ts"]], on="author"): inner
\* join, left order kept; seed_df has one row per author.
MergeFirstSeedTs(rows, seeddf) ==
    LET T0Of(a) == (CHOOSE i \in DOMAIN seeddf : seeddf[i].author = a)
        matched == SelectSeq(rows,
                       LAMBDA r : \E i \in DOMAIN seeddf : seeddf[i].author = r.author)
    IN  [i \in DOMAIN matched |->
            [f \in DOMAIN matched[i] \cup {"first_seed_ts"} |->
                IF f = "first_seed_ts"
                THEN seeddf[T0Of(matched[i].author)].first_seed_ts
                ELSE matched[i][f]]]

\* (variant of GroupByAuthorSubreddit: one row per event instead of one per
\* group)
GroupByAuthorSubreddit_PerEvent(rows) ==
    [i \in DOMAIN rows |->
        [author |-> rows[i].author,
         subreddit |-> rows[i].subreddit,
         first_ts_here |-> rows[i].created_utc,
         comment_count |-> 1]]

\* groupby(["author", "subreddit"]).agg(min, size).reset_index(): one row per
\* group, groups in sorted key order.
GroupByAuthorSubreddit(rows) ==
    LET keys == {<<r.author, r.subreddit>> : r \in Range(rows)}
        Group(k) == {i \in DOMAIN rows : <<rows[i].author, rows[i].subreddit>> = k}
        KeyAt(p) == CHOOSE k \in keys :
                        Cardinality({k2 \in keys : LexLess(k2, k)}) = p - 1
    IN  [p \in 1..Cardinality(keys) |->
            [author |-> KeyAt(p)[1],
             subreddit |-> KeyAt(p)[2],
             first_ts_here |-> Min({rows[i].created_utc : i \in Group(KeyAt(p))}),
             comment_count |-> Cardinality(Group(KeyAt(p)))]]

\* ------------------------------------------------ compute_user_drift_paths
\* {x.strip() for x in ... if x.strip()}
ParseSeedSubs(arg) == {arg[i] : i \in DOMAIN arg} \ {Blank}

\* (variant of SeedListe: the empty list is not checked)
SeedListe_NoCheck ==
    /\ pc = "seed_list"
    /\ SEED_SUBS' = ParseSeedSubs(seed_subs_arg)
    /\ pc' = "collect_files"
    /\ UNCHANGED <<min_comments, records, seed_df, agg, out, columns,
                   graphvars, restvars>>

\* Seed-Liste
SeedListe ==
    /\ pc = "seed_list"
    /\ SEED_SUBS' = ParseSeedSubs(seed_subs_arg)
    /\ pc' = IF SEED_SUBS' = {} THEN "exit_seed_list_empty" ELSE "collect_files"
    /\ UNCHANGED <<min_comments, records, seed_df, agg, out, columns,
                   graphvars, restvars>>

\* Dateien sammeln: the globs match some file or none
DateienSammeln ==
    /\ pc = "collect_files"
    /\ \E found \in BOOLEAN :
          pc' = IF found THEN "read" ELSE "exit_no_input_files"
    /\ UNCHANGED <<pathvars, graphvars, restvars>>

\* the lines that give no record
BadLineKinds == {"blank", "not_json", "missing_field", "bad_created_utc"}

\* JSONL einlesen: a line that is blank, is not JSON or lacks a field is
\* skipped; int(obj["created_utc"]) of a value that is no number raises.
ReadBadLine ==
    /\ pc = "read"
    /\ \E kind \in BadLineKinds :
          pc' = IF kind = "bad_created_utc" THEN "error_int_created_utc" ELSE pc
    /\ UNCHANGED <<pathvars, graphvars, restvars>>

\* JSONL einlesen: one line appended to records
ReadLine ==
    /\ pc = "read"
    /\ \E r \in InputRecords \cup Range(ScenarioA) :
          /\ \/ Len(records) < MaxRecords /\ r \in InputRecords
             \/ IsPrefix(Append(records, r), ScenarioA)
          /\ records' = Append(records, r)
    /\ UNCHANGED <<pc, SEED_SUBS, min_comments, seed_df, agg, out, columns,
                   graphvars, restvars>>

\* (variant of SeedDf: the first seed row in input order, without the sort)
SeedDf_InputOrder(df, seeds) ==
    LET seedrows == SelectSeq(df, LAMBDA r : r.subreddit \in seeds)
        first == DropDuplicatesAuthor(seedrows)
    IN  [i \in DOMAIN first |->
            [author |-> first[i].author,
             seed_sub |-> first[i].subreddit,
             first_seed_ts |-> first[i].created_utc]]

\* T0 je User bestimmen
SeedDf(df, seeds) ==
    LET seedrows == SelectSeq(df, LAMBDA r : r.subreddit \in seeds)
        sorted == SortValues(seedrows,
                      [i \in DOMAIN seedrows |->
                          <<seedrows[i].author, seedrows[i].created_utc>>])
        first == DropDuplicatesAuthor(sorted)
    IN  [i \in DOMAIN first |->
            [author |-> first[i].author,
             seed_sub |-> first[i].subreddit,
             first_seed_ts |-> first[i].created_utc]]

\* (variant of DetermineT0: the empty seed_df is not checked)
DetermineT0_NoExit ==
    /\ pc = "read"
    /\ seed_df' = SeedDf(records, SEED_SUBS)
    /\ pc' = "pre_t0"
    /\ UNCHANGED <<SEED_SUBS, min_comments, records, agg, out, columns,
                   graphvars, restvars>>

\* T0 je User bestimmen
DetermineT0 ==
    /\ pc = "read"
    /\ seed_df' = SeedDf(records, SEED_SUBS)
    /\ pc' = IF seed_df' = <<>> THEN "exit_no_seed_poster" ELSE "pre_t0"
    /\ UNCHANGED <<SEED_SUBS, min_comments, records, agg, out, columns,
                   graphvars, restvars>>

\* (variant of PreDf: events at T0 itself are kept)
PreDf_UpToT0(df, seeddf) ==
    SelectSeq(MergeFirstSeedTs(df, seeddf),
              LAMBDA r : r.created_utc <= r.first_seed_ts)

\* Pre-T0-Kommentare
PreDf(df, seeddf) ==
    SelectSeq(MergeFirstSeedTs(df, seeddf),
              LAMBDA r : r.created_utc < r.first_seed_ts)

PreT0Kommentare ==
    /\ pc = "pre_t0"
    /\ agg' = GroupByAuthorSubreddit(PreDf(records, seed_df))
    /\ pc' = "min_comments"
    /\ UNCHANGED <<SEED_SUBS, min_comments, records, seed_df, out, columns,
                   graphvars, restvars>>

\* (variant of FilterMinComments: the filtered frame is not assigned)
FilterMinComments_NotAssigned(rows, m) == rows

\* (variant of FilterMinComments: rows with exactly m comments are dropped,
\* for every m)
FilterMinComments_Strict(rows, m) ==
    SelectSeq(rows, LAMBDA r : r.comment_count > m)

\* Min-Comments Filter (nur Pre-T0)
FilterMinComments(rows, m) ==
    IF m > 1 THEN SelectSeq(rows, LAMBDA r : r.comment_count >= m) ELSE rows

\* (variant of RelDays: the days rounded up)
RelDays_RoundedUp(rows, seeddf) ==
    LET merged == MergeFirstSeedTs(rows, seeddf)
    IN  [i \in DOMAIN merged |->
            [author |-> merged[i].author,
             subreddit |-> merged[i].subreddit,
             first_ts_here |-> merged[i].first_ts_here,
             comment_count |-> merged[i].comment_count,
             rel_days |-> (merged[i].first_seed_ts - merged[i].first_ts_here
                              + SecondsPerDay - 1) \div SecondsPerDay]]

\* rel_days = (first_seed_ts - first_ts_here).dt.days
RelDays(rows, seeddf) ==
    LET merged == MergeFirstSeedTs(rows, seeddf)
    IN  [i \in DOMAIN merged |->
            [author |-> merged[i].author,
             subreddit |-> merged[i].subreddit,
             first_ts_here |-> merged[i].first_ts_here,
             comment_count |-> merged[i].comment_count,
             rel_days |-> (merged[i].first_seed_ts - merged[i].first_ts_here)
                              \div SecondsPerDay]]

\* compute_user_drift_paths: Min-Comments Filter, then rel_days
MinCommentsFilter ==
    /\ pc = "min_comments"
    /\ script = "compute_user_drift_paths"
    /\ agg' = RelDays(FilterMinComments(agg, min_comments), seed_df)
    /\ pc' = "t0_rows"
    /\ UNCHANGED <<SEED_SUBS, min_comments, records, seed_df, out, columns,
                   graphvars, restvars>>

\* user_drift_paths: rel_days (wie viele Tage vor T0), with no filter
RelDaysVorT0 ==
    /\ pc = "min_comments"
    /\ script = "user_drift_paths"
    /\ agg' = RelDays(agg, seed_df)
    /\ pc' = "t0_rows"
    /\ UNCHANGED <<SEED_SUBS, min_comments, records, seed_df, out, columns,
                   graphvars, restvars>>

\* (variant of T0Rows: the min-comments filter applied to the T0 rows too)
T0Rows_Filtered(seeddf) ==
    FilterMinComments(
        [i \in DOMAIN seeddf |->
            [author |-> seeddf[i].author,
             subreddit |-> seeddf[i].seed_sub,
             first_ts_here |-> seeddf[i].first_seed_ts,
             comment_count |-> 1,
             rel_days |-> 0]],
        min_comments)

\* T0-Zeile
T0Rows(seeddf) ==
    [i \in DOMAIN seeddf |->
        [author |-> seeddf[i].author,
         subreddit |-> seeddf[i].seed_sub,
         first_ts_here |-> seeddf[i].first_seed_ts,
         comment_count |-> 1,
         rel_days |-> 0]]

\* the columns of agg and t0_rows[agg.columns]
PathColumns == {"author", "subreddit", "first_ts_here", "comment_count", "rel_days"}

\* (variant of Speichern: pd.concat([t0_rows, agg]))
Speichern_T0First ==
    /\ pc = "t0_rows"
    /\ out' = T0Rows(seed_df) \o agg
    /\ columns' = PathColumns
    /\ pc' = "paths_written"
    /\ UNCHANGED <<SEED_SUBS, min_comments, records, seed_df, agg,
                   graphvars, restvars>>

\* Speichern: out = pd.concat([agg, t0_rows]) written to user_paths.csv
Speichern ==
    /\ pc = "t0_rows"
    /\ out' = agg \o T0Rows(seed_df)
    /\ columns' = PathColumns
    /\ pc' = "paths_written"
    /\ UNCHANGED <<SEED_SUBS, min_comments, records, seed_df, agg,
                   graphvars, restvars>>

\* -------------------------------------------------- build_transition_graph
Empty == [x \in {} |-> 0]

\* collections.Counter: a missing key reads as 0
CounterGet(c, k) == IF k \in DOMAIN c THEN c[k] ELSE 0

\* collections.defaultdict(set): a missing key reads as the empty set
SetGet(d, k) == IF k \in DOMAIN d THEN d[k] ELSE {}

\* df.sort_values(["author", "rel_days"], ascending=[True, False])
DfUserSorted(df) ==
    SortValues(df, [i \in DOMAIN df |-> <<df[i].author, 0 - df[i].rel_days>>])

\* groupby("author", sort=False): the authors in order of first appearance
GroupAuthors(df) ==
    LET first == DropDuplicatesAuthor(df)
    IN  [i \in DOMAIN first |-> first[i].author]

\* grp["subreddit"].tolist()
SubsOf(df, author) ==
    LET grp == SelectSeq(df, LAMBDA r : r.author = author)
    IN  [i \in DOMAIN grp |-> grp[i].subreddit]

\* (variant of Transitions: zip(subs, subs), every step paired with itself)
Transitions_WithSelf(subs) == [i \in 1..Len(subs) |-> <<subs[i], subs[i]>>]

\* zip(subs, subs[1:])
Transitions(subs) == [i \in 1..(Len(subs) - 1) |-> <<subs[i], subs[i + 1]>>]

\* (variant of AggAuthor: the first entry counted at the last step)
AggAuthor_LastEntry(acc, author, subs) ==
    LET tr == Transitions(subs)
    IN  [node_users |->
            [s \in DOMAIN acc.node_users \cup Range(subs) |->
                SetGet(acc.node_users, s)
                    \cup (IF s \in Range(subs) THEN {author} ELSE {})],
         first_entries |->
            IF subs = <<>> THEN acc.first_entries
            ELSE [s \in DOMAIN acc.first_entries \cup {subs[Len(subs)]} |->
                     CounterGet(acc.first_entries, s)
                         + (IF s = subs[Len(subs)] THEN 1 ELSE 0)],
         edge_users |->
            [e \in DOMAIN acc.edge_users \cup Range(tr) |->
                SetGet(acc.edge_users, e)
                    \cup (IF e \in Range(tr) THEN {author} ELSE {})],
         edge_trans |->
            [e \in DOMAIN acc.edge_trans \cup Range(tr) |->
                CounterGet(acc.edge_trans, e)
                    + Cardinality({i \in DOMAIN tr : tr[i] = e})]]

\* (variant of AggAuthor: a transition counted once per author)
AggAuthor_OncePerAuthor(acc, author, subs) ==
    LET tr == Transitions(subs)
    IN  [node_users |->
            [s \in DOMAIN acc.node_users \cup Range(subs) |->
                SetGet(acc.node_users, s)
                    \cup (IF s \in Range(subs) THEN {author} ELSE {})],
         first_entries |->
            IF subs = <<>> THEN acc.first_entries
            ELSE [s \in DOMAIN acc.first_entries \cup {subs[1]} |->
                     CounterGet(acc.first_entries, s)
                         + (IF s = subs[1] THEN 1 ELSE 0)],
         edge_users |->
            [e \in DOMAIN acc.edge_users \cup Range(tr) |->
                SetGet(acc.edge_users, e)
                    \cup (IF e \in Range(tr) THEN {author} ELSE {})],
         edge_trans |->
            [e \in DOMAIN acc.edge_trans \cup Range(tr) |->
                CounterGet(acc.edge_trans, e)
                    + (IF e \in Range(tr) THEN 1 ELSE 0)]]

\* (variant of AggAuthor: edge_trans[(src, dst)] = 1 instead of += 1)
AggAuthor_TransAssigned(acc, author, subs) ==
    LET tr == Transitions(subs)
    IN  [node_users |->
            [s \in DOMAIN acc.node_users \cup Range(subs) |->
                SetGet(acc.node_users, s)
                    \cup (IF s \in Range(subs) THEN {author} ELSE {})],
         first_entries |->
            IF subs = <<>> THEN acc.first_entries
            ELSE [s \in DOMAIN acc.first_entries \cup {subs[1]} |->
                     CounterGet(acc.first_entries, s)
                         + (IF s = subs[1] THEN 1 ELSE 0)],
         edge_users |->
            [e \in DOMAIN acc.edge_users \cup Range(tr) |->
                SetGet(acc.edge_users, e)
                    \cup (IF e \in Range(tr) THEN {author} ELSE {})],
         edge_trans |->
            [e \in DOMAIN acc.edge_trans \cup Range(tr) |->
                IF e \in Range(tr) THEN 1 ELSE acc.edge_trans[e]]]

\* (variant of AggAuthor: a first entry counted only for a subreddit that no
\* earlier author has visited)
AggAuthor_FirstEverEntry(acc, author, subs) ==
    LET tr == Transitions(subs)
    IN  [node_users |->
            [s \in DOMAIN acc.node_users \cup Range(subs) |->
                SetGet(acc.node_users, s)
                    \cup (IF s \in Range(subs) THEN {author} ELSE {})],
         first_entries |->
            IF subs = <<>> \/ subs[1] \in DOMAIN acc.node_users
            THEN acc.first_entries
            ELSE [s \in DOMAIN acc.first_entries \cup {subs[1]} |->
                     CounterGet(acc.first_entries, s)
                         + (IF s = subs[1] THEN 1 ELSE 0)],
         edge_users |->
            [e \in DOMAIN acc.edge_users \cup Range(tr) |->
                SetGet(acc.edge_users, e)
                    \cup (IF e \in Range(tr) THEN {author} ELSE {})],
         edge_trans |->
            [e \in DOMAIN acc.edge_trans \cup Range(tr) |->
                CounterGet(acc.edge_trans, e)
                    + Cardinality({i \in DOMAIN tr : tr[i] = e})]]

\* (variant of AggAuthor: first_entries counts every step of the path)
AggAuthor_EveryEntry(acc, author, subs) ==
    LET tr == Transitions(subs)
    IN  [node_users |->
            [s \in DOMAIN acc.node_users \cup Range(subs) |->
                SetGet(acc.node_users, s)
                    \cup (IF s \in Range(subs) THEN {author} ELSE {})],
         first_entries |->
            [s \in DOMAIN acc.first_entries \cup Range(subs) |->
                CounterGet(acc.first_entries, s)
                    + Cardinality({i \in DOMAIN subs : subs[i] = s})],
         edge_users |->
            [e \in DOMAIN acc.edge_users \cup Range(tr) |->
                SetGet(acc.edge_users, e)
                    \cup (IF e \in Range(tr) THEN {author} ELSE {})],
         edge_trans |->
            [e \in DOMAIN acc.edge_trans \cup Range(tr) |->
                CounterGet(acc.edge_trans, e)
                    + Cardinality({i \in DOMAIN tr : tr[i] = e})]]

\* The loop body for one author: the four accumulators after it.
AggAuthor(acc, author, subs) ==
    LET tr == Transitions(subs)
    IN  [node_users |->
            [s \in DOMAIN acc.node_users \cup Range(subs) |->
                SetGet(acc.node_users, s)
                    \cup (IF s \in Range(subs) THEN {author} ELSE {})],
         first_entries |->
            IF subs = <<>> THEN acc.first_entries
            ELSE [s \in DOMAIN acc.first_entries \cup {subs[1]} |->
                     CounterGet(acc.first_entries, s)
                         + (IF s = subs[1] THEN 1 ELSE 0)],
         edge_users |->
            [e \in DOMAIN acc.edge_users \cup Range(tr) |->
                SetGet(acc.edge_users, e)
                    \cup (IF e \in Range(tr) THEN {author} ELSE {})],
         edge_trans |->
            [e \in DOMAIN acc.edge_trans \cup Range(tr) |->
                CounterGet(acc.edge_trans, e)
                    + Cardinality({i \in DOMAIN tr : tr[i] = e})]]

Acc == [node_users |-> node_users, first_entries |-> first_entries,
        edge_users |-> edge_users, edge_trans |-> edge_trans]

\* (variant of ReqCols: comment_count is not required)
ReqCols_NoCommentCount == {"author", "subreddit", "rel_days"}

\* req_cols
ReqCols == {"author", "subreddit", "rel_days", "comment_count"}

\* Daten laden: read user_paths.csv, check its columns and sort it
DatenLaden ==
    /\ pc = "paths_written"
    /\ weight' \in {"users", "transitions"}
    /\ IF "first_ts_here" \notin columns
       THEN pc' = "error_parse_dates" /\ UNCHANGED df_user_sorted
       ELSE IF ~ (ReqCols \subseteq columns)
       THEN pc' = "exit_missing_columns" /\ UNCHANGED df_user_sorted
       ELSE pc' = "loop" /\ df_user_sorted' = DfUserSorted(out)
    /\ UNCHANGED <<pathvars, done_groups,
                   edge_users, edge_trans, node_users, first_entries, G,
                   restvars>>

\* Uebergaenge sammeln: one iteration of the loop over the author groups
UebergaengeSammeln ==
    /\ pc = "loop"
    /\ done_groups < Len(GroupAuthors(df_user_sorted))
    /\ LET author == GroupAuthors(df_user_sorted)[done_groups + 1]
           new == AggAuthor(Acc, author, SubsOf(df_user_sorted, author))
       IN  /\ node_users' = new.node_users
           /\ first_entries' = new.first_entries
           /\ edge_users' = new.edge_users
           /\ edge_trans' = new.edge_trans
    /\ done_groups' = done_groups + 1
    /\ UNCHANGED <<pc, pathvars, weight, df_user_sorted, G, restvars>>

\* Graph bauen, main weight field, Speichern
BuildGraph(acc, mode) ==
    [nodes |->
        [s \in DOMAIN acc.node_users |->
            [users_total |-> Cardinality(acc.node_users[s]),
             first_entries |-> CounterGet(acc.first_entries, s)]],
     edges |->
        [e \in DOMAIN acc.edge_users |->
            [weight_users |-> Cardinality(acc.edge_users[e]),
             weight_transitions |-> CounterGet(acc.edge_trans, e),
             weight |-> IF mode = "users"
                        THEN Cardinality(acc.edge_users[e])
                        ELSE CounterGet(acc.edge_trans, e)]]]

GraphBauen ==
    /\ pc = "loop"
    /\ done_groups = Len(GroupAuthors(df_user_sorted))
    /\ G' = BuildGraph(Acc, weight)
    /\ pc' = "done"
    /\ UNCHANGED <<pathvars, weight, df_user_sorted, done_groups,
                   edge_users, edge_trans, node_users, first_entries,
                   restvars>>

InitGraphVars ==
    /\ weight = "users"
    /\ df_user_sorted = <<>>
    /\ done_groups = 0
    /\ edge_users = Empty
    /\ edge_trans = Empty
    /\ node_users = Empty
    /\ first_entries = Empty
    /\ G = [nodes |-> Empty, edges |-> Empty]

\* the variables of the scripts that do not run
NoCohort ==
    /\ SEEDS = {}
    /\ BAD = {}
    /\ scanned = <<>>
    /\ authors = {}
    /\ cout = <<>>
    /\ userlist = <<>>
    /\ max_lines_arg = <<>>
    /\ MAX_LINES = 0
    /\ USERS = {}
    /\ cohort_rows = <<>>

InitPaths ==
    /\ pc = "seed_list"
    /\ SEED_SUBS = {}
    /\ records = <<>>
    /\ seed_df = <<>>
    /\ agg = <<>>
    /\ out = <<>>
    /\ columns = {}
    /\ aggregate_bins = "not_written"
    /\ InitGraphVars
    /\ NoCohort

Init ==
    /\ InitPaths
    /\ script = "compute_user_drift_paths"
    /\ seed_subs_arg \in SeedSubsArgs
    /\ min_comments \in MinCommentsArgs
    /\ bins = FALSE

Next ==
    \/ SeedListe
    \/ DateienSammeln
    \/ ReadLine
    \/ ReadBadLine
    \/ DetermineT0
    \/ PreT0Kommentare
    \/ MinCommentsFilter
    \/ Speichern
    \/ DatenLaden
    \/ UebergaengeSammeln
    \/ GraphBauen

Spec == Init /\ [][Next]_vars

\* the two path scripts with --bins: compute_user_drift_paths.py and
\* user_drift_paths.py (which has no --min-comments)
PathScripts == {"compute_user_drift_paths", "user_drift_paths"}

\* optional Binning. compute_user_drift_paths: the block is commented out.
\* user_drift_paths: the frame queried has the columns author, subreddit and
\* bin, so query("... rel_days > 0") raises on the name rel_days before
\* aggregate_bins.csv is written.
OptionalBinning ==
    /\ pc = "paths_written"
    /\ pc' = IF script = "user_drift_paths" /\ bins /\ out # <<>>
             THEN "error_query_rel_days"
             ELSE "path_script_done"
    /\ UNCHANGED <<pathvars, graphvars, restvars>>

InitBins ==
    /\ InitPaths
    /\ script \in PathScripts
    /\ seed_subs_arg \in SeedSubsArgs
    /\ min_comments \in (IF script = "user_drift_paths"
                          THEN {1}
                          ELSE 0..MaxMinComments)
    /\ bins \in BOOLEAN

NextBins ==
    \/ SeedListe
    \/ DateienSammeln
    \/ ReadLine
    \/ ReadBadLine
    \/ DetermineT0
    \/ PreT0Kommentare
    \/ MinCommentsFilter
    \/ RelDaysVorT0
    \/ Speichern
    \/ OptionalBinning

SpecBins == InitBins /\ [][NextBins]_vars

\* build_transition_graph run on its own, on any path table
MaxRows == 4
MaxRelDays == 1
PathRows == [author : Authors, subreddit : Subs, first_ts_here : {0},
             comment_count : {1}, rel_days : 0..MaxRelDays]
\* the headers tried: all columns, all but one, and all but first_ts_here
\* and rel_days
ColumnChoices ==
    {PathColumns} \cup {PathColumns \ {c} : c \in PathColumns}
        \cup {PathColumns \ {"first_ts_here", "rel_days"}}
\* a row with the columns of the file only
Project(r, cols) == [f \in cols |-> r[f]]
\* a row of the user_paths.csv that build_transition_graph is given
PathsCsvRow ==
    /\ pc = "paths_csv"
    /\ \E r \in PathRows \cup Range(ScenarioC) :
          /\ \/ Len(out) < MaxRows /\ r \in PathRows
             \/ columns = PathColumns /\ IsPrefix(Append(out, r), ScenarioC)
          /\ out' = Append(out, Project(r, columns))
    /\ UNCHANGED <<pc, SEED_SUBS, min_comments, records, seed_df, agg, columns,
                   graphvars, restvars>>

\* build_transition_graph is started on the file
StartGraph ==
    /\ pc = "paths_csv"
    /\ pc' = "paths_written"
    /\ UNCHANGED <<pathvars, graphvars, restvars>>

InitGraph ==
    /\ pc = "paths_csv"
    /\ SEED_SUBS = {}
    /\ min_comments = 1
    /\ records = <<>>
    /\ seed_df = <<>>
    /\ agg = <<>>
    /\ out = <<>>
    /\ columns \in ColumnChoices
    /\ script = "build_transition_graph"
    /\ seed_subs_arg = <<>>
    /\ bins = FALSE
    /\ aggregate_bins = "not_written"
    /\ InitGraphVars
    /\ NoCohort

NextGraph ==
    \/ PathsCsvRow
    \/ StartGraph
    \/ DatenLaden
    \/ UebergaengeSammeln
    \/ GraphBauen

SpecGraph == InitGraph /\ [][NextGraph]_vars

\* ------------------------------------------------------ filter_seed_cohort
MaxLines == 3

\* a user name of the --bad-users list
IgnoredUser == NumAuthors + 1

\* --bad-users values tried: the default list, and a list naming author 1
BadUsersArgs == {{IgnoredUser}, {1}}

\* the lines of the dumps: a comment, or a line that is not JSON
NotJson == [json |-> FALSE]
CohortLines ==
    [json : {TRUE}, author : Authors \cup {IgnoredUser}, subreddit : Subs,
     created_utc : Times] \cup {NotJson}

\* json.dumps({'author': user, 'subreddit': sub, 'created_utc': ts})
CohortRecord(ln) ==
    [author |-> ln.author, subreddit |-> ln.subreddit, created_utc |-> ln.created_utc]

\* sorted(authors)
SortedAuthors(S) ==
    [p \in 1..Cardinality(S) |->
        CHOOSE a \in S : Cardinality({b \in S : b < a}) = p - 1]

\* (variant of PassSeedsCohort: the bad users are tested in the cohort branch
\* only)
PassSeedsCohort_BadAfterSeed ==
    /\ pc = "cohort_scan"
    /\ Len(scanned) < MaxLines
    /\ \E ln \in CohortLines :
          /\ scanned' = Append(scanned, ln)
          /\ IF ~ ln.json THEN UNCHANGED <<authors, cout>>
             ELSE IF ln.subreddit \in SEEDS
             THEN /\ authors' = authors \cup {ln.author}
                  /\ cout' = Append(cout, CohortRecord(ln))
             ELSE IF ln.author \in authors /\ ln.author \notin BAD
             THEN /\ cout' = Append(cout, CohortRecord(ln))
                  /\ UNCHANGED authors
             ELSE UNCHANGED <<authors, cout>>
    /\ UNCHANGED <<pc, pathvars, graphvars, argvars, aggregate_bins,
                   SEEDS, BAD, userlist, filtervars, cohort_rows>>

\* (variant of PassSeedsCohort: the author is remembered after the cohort
\* test, so the seed-subreddit comment that makes an author known is written
\* only from the second one on)
PassSeedsCohort_KnownFirst ==
    /\ pc = "cohort_scan"
    /\ Len(scanned) < MaxLines
    /\ \E ln \in CohortLines :
          /\ scanned' = Append(scanned, ln)
          /\ IF ~ ln.json THEN UNCHANGED <<authors, cout>>
             ELSE IF ln.author \in BAD THEN UNCHANGED <<authors, cout>>
             ELSE /\ cout' = IF ln.author \in authors
                             THEN Append(cout, CohortRecord(ln)) ELSE cout
                  /\ authors' = IF ln.subreddit \in SEEDS
                                THEN authors \cup {ln.author} ELSE authors
    /\ UNCHANGED <<pc, pathvars, graphvars, argvars, aggregate_bins,
                   SEEDS, BAD, userlist, filtervars, cohort_rows>>

\* Pass: Seeds + Cohort, one line of the stream
PassSeedsCohort ==
    /\ pc = "cohort_scan"
    /\ Len(scanned) < MaxLines
    /\ \E ln \in CohortLines :
          /\ scanned' = Append(scanned, ln)
          /\ IF ~ ln.json THEN UNCHANGED <<authors, cout>>
             ELSE IF ln.author \in BAD THEN UNCHANGED <<authors, cout>>
             ELSE IF ln.subreddit \in SEEDS
             THEN /\ authors' = authors \cup {ln.author}
                  /\ cout' = Append(cout, CohortRecord(ln))
             ELSE IF ln.author \in authors
             THEN /\ cout' = Append(cout, CohortRecord(ln))
                  /\ UNCHANGED authors
             ELSE UNCHANGED <<authors, cout>>
    /\ UNCHANGED <<pc, pathvars, graphvars, argvars, aggregate_bins,
                   SEEDS, BAD, userlist, filtervars, cohort_rows>>

\* Save userlist, at the end of the stream
SaveUserlist ==
    /\ pc = "cohort_scan"
    /\ userlist' = SortedAuthors(authors)
    /\ pc' = "cohort_done"
    /\ UNCHANGED <<pathvars, graphvars, argvars, aggregate_bins,
                   SEEDS, BAD, scanned, authors, cout, filtervars, cohort_rows>>

InitCohort ==
    /\ pc = "cohort_scan"
    /\ script = "filter_seed_cohort"
    /\ SEEDS \in {ParseSeedSubs(arg) : arg \in SeedSubsArgs}
    /\ BAD \in BadUsersArgs
    /\ scanned = <<>>
    /\ authors = {}
    /\ cout = <<>>
    /\ userlist = <<>>
    /\ max_lines_arg = <<>>
    /\ MAX_LINES = 0
    /\ USERS = {}
    /\ cohort_rows = <<>>
    /\ SEED_SUBS = {}
    /\ min_comments = 1
    /\ records = <<>>
    /\ seed_df = <<>>
    /\ agg = <<>>
    /\ out = <<>>
    /\ columns = {}
    /\ seed_subs_arg = <<>>
    /\ bins = FALSE
    /\ aggregate_bins = "not_written"
    /\ InitGraphVars

NextCohort ==
    \/ PassSeedsCohort
    \/ SaveUserlist

SpecCohort == InitCohort /\ [][NextCohort]_vars

\* ---------------------------------------------- filter_seed, filter_cohort
DumpFilters == {"filter_seed", "filter_cohort"}

\* MAX_LINES = None
NoLimit == 0

\* default of --max-lines: filter_seed has 200_000, which stands here as 2
\* lines, within the streams of at most MaxLines lines; filter_cohort has 0
DefaultMaxLinesSeed == 2
DefaultMaxLinesCohort == 0

\* --max-lines values tried: absent, 0, and every N up to MaxLines
MaxLinesArgs == {<<>>} \cup {<<n>> : n \in 0..MaxLines}

\* args.max_lines
ArgsMaxLines(scr, arg) ==
    IF arg # <<>> THEN arg[1]
    ELSE IF scr = "filter_seed" THEN DefaultMaxLinesSeed ELSE DefaultMaxLinesCohort

\* MAX_LINES = args.max_lines if args.max_lines > 0 else None
MaxLinesOf(n) == IF n > 0 THEN n ELSE NoLimit

\* if MAX_LINES and line_cnt >= MAX_LINES
LimitReached(line_cnt) == MAX_LINES # NoLimit /\ line_cnt >= MAX_LINES

\* filter_seed, scan loop: one line of the dump
FilterSeedLine ==
    /\ pc = "filter_scan"
    /\ script = "filter_seed"
    /\ Len(scanned) < MaxLines
    /\ \E raw \in CohortLines :
          /\ scanned' = Append(scanned, raw)
          /\ IF LimitReached(Len(scanned'))
             THEN pc' = "filter_break" /\ UNCHANGED <<authors, cout>>
             ELSE /\ pc' = pc
                  /\ IF ~ raw.json THEN UNCHANGED <<authors, cout>>
                     ELSE IF raw.subreddit \in SEEDS /\ raw.author \notin BAD
                     THEN /\ authors' = authors \cup {raw.author}
                          /\ cout' = Append(cout, raw)
                     ELSE UNCHANGED <<authors, cout>>
    /\ UNCHANGED <<pathvars, graphvars, argvars, aggregate_bins,
                   SEEDS, BAD, userlist, filtervars, cohort_rows>>

\* filter_seed, write user list: after the break or at the end of the dump
WriteUserList ==
    /\ pc \in {"filter_scan", "filter_break"}
    /\ script = "filter_seed"
    /\ userlist' = SortedAuthors(authors)
    /\ pc' = "filter_done"
    /\ UNCHANGED <<pathvars, graphvars, argvars, aggregate_bins,
                   SEEDS, BAD, scanned, authors, cout, filtervars, cohort_rows>>

\* filter_cohort, scan loop: one line of the dump
FilterCohortLine ==
    /\ pc = "filter_scan"
    /\ script = "filter_cohort"
    /\ Len(scanned) < MaxLines
    /\ \E raw \in CohortLines :
          /\ scanned' = Append(scanned, raw)
          /\ IF LimitReached(Len(scanned'))
             THEN pc' = "filter_break" /\ UNCHANGED cout
             ELSE /\ pc' = pc
                  /\ IF ~ raw.json THEN UNCHANGED cout
                     ELSE IF raw.author \in USERS /\ raw.author \notin BAD
                     THEN cout' = Append(cout, CohortRecord(raw))
                     ELSE UNCHANGED cout
    /\ UNCHANGED <<pathvars, graphvars, argvars, aggregate_bins,
                   SEEDS, BAD, authors, userlist, filtervars, cohort_rows>>

\* filter_cohort, after the break or at the end of the dump
FilterCohortDone ==
    /\ pc \in {"filter_scan", "filter_break"}
    /\ script = "filter_cohort"
    /\ pc' = "filter_done"
    /\ UNCHANGED <<pathvars, graphvars, argvars, aggregate_bins,
                   cohortvars, filtervars, cohort_rows>>

InitFilter ==
    /\ pc = "filter_scan"
    /\ script \in DumpFilters
    /\ max_lines_arg \in MaxLinesArgs
    /\ MAX_LINES = MaxLinesOf(ArgsMaxLines(script, max_lines_arg))
    /\ SEEDS = (IF script = "filter_seed" THEN {1} ELSE {})
    /\ USERS \in (IF script = "filter_cohort" THEN {{1}, {1, IgnoredUser}} ELSE {{}})
    /\ BAD = {IgnoredUser}
    /\ scanned = <<>>
    /\ authors = {}
    /\ cout = <<>>
    /\ userlist = <<>>
    /\ cohort_rows = <<>>
    /\ SEED_SUBS = {}
    /\ min_comments = 1
    /\ records = <<>>
    /\ seed_df = <<>>
    /\ agg = <<>>
    /\ out = <<>>
    /\ columns = {}
    /\ seed_subs_arg = <<>>
    /\ bins = FALSE
    /\ aggregate_bins = "not_written"
    /\ InitGraphVars

NextFilter ==
    \/ FilterSeedLine
    \/ WriteUserList
    \/ FilterCohortLine
    \/ FilterCohortDone

SpecFilter == InitFilter /\ [][NextFilter]_vars

\* the three dump filters
InitAllFilters == InitCohort \/ InitFilter

NextAllFilters ==
    \/ PassSeedsCohort
    \/ SaveUserlist
    \/ FilterSeedLine
    \/ WriteUserList
    \/ FilterCohortLine
    \/ FilterCohortDone

SpecAllFilters == InitAllFilters /\ [][NextAllFilters]_vars

\* ----------------------------------------------------- make_windowed_graph
MaxCohortLines == 4

WINDOW_DAYS == 7
WINDOW_SEC == WINDOW_DAYS * 24 * 60 * 60

\* timestamps of the cohort file: equal, one second apart, exactly the
\* window apart, and one second more than the window apart
WindowTimes == {0, WINDOW_SEC, WINDOW_SEC + 1}

\* the lines of the cohort file: a comment, or a line that is not JSON
WindowLines ==
    [json : {TRUE}, author : Authors, subreddit : Subs, created_utc : WindowTimes]
        \cup {NotJson}

\* hashlib.sha256(author.encode()).hexdigest(): one uid per author, in an
\* order that is not the order of the names
Sha256(author) == NumAuthors + 1 - author

\* rows.sort(key=lambda x: (x[0], x[2])), a stable sort
SortRows(r) == SortValues(r, [i \in DOMAIN r |-> <<r[i][1], r[i][3]>>])

\* (variant of WindowedEdgeUsers: a pair exactly WINDOW_SEC apart is left out)
WindowedEdgeUsers_StrictWindow(r) ==
    LET hits == {i \in 1..(Len(r) - 1) :
                    /\ r[i][1] = r[i + 1][1]
                    /\ r[i][2] # r[i + 1][2]
                    /\ 0 < r[i + 1][3] - r[i][3]
                    /\ r[i + 1][3] - r[i][3] < WINDOW_SEC}
        Pair(i) == <<r[i][2], r[i + 1][2]>>
    IN  [e \in {Pair(i) : i \in hits} |-> {r[i][1] : i \in {h \in hits : Pair(h) = e}}]

\* the loop over zip(rows, rows[1:])
WindowedEdgeUsers(r) ==
    LET hits == {i \in 1..(Len(r) - 1) :
                    /\ ~ (r[i][1] # r[i + 1][1] \/ r[i][2] = r[i + 1][2])
                    /\ 0 < r[i + 1][3] - r[i][3]
                    /\ r[i + 1][3] - r[i][3] <= WINDOW_SEC}
        Pair(i) == <<r[i][2], r[i + 1][2]>>
    IN  [e \in {Pair(i) : i \in hits} |-> {r[i][1] : i \in {h \in hits : Pair(h) = e}}]

\* Loading cohort: one line of the cohort file
LoadCohortLine ==
    /\ pc = "window_load"
    /\ Len(scanned) < MaxCohortLines
    /\ \E ln \in WindowLines :
          /\ scanned' = Append(scanned, ln)
          /\ cohort_rows' =
                IF ln.json
                THEN Append(cohort_rows,
                            <<Sha256(ln.author), ln.subreddit, ln.created_utc>>)
                ELSE cohort_rows
    /\ UNCHANGED <<pc, pathvars, graphvars, argvars, aggregate_bins,
                   SEEDS, BAD, authors, cout, userlist, filtervars>>

\* Sorting
Sorting ==
    /\ pc = "window_load"
    /\ cohort_rows' = SortRows(cohort_rows)
    /\ pc' = "window_sorted"
    /\ UNCHANGED <<pathvars, graphvars, argvars, aggregate_bins,
                   cohortvars, filtervars>>

\* Counting windowed transitions
CountingWindowedTransitions ==
    /\ pc = "window_sorted"
    /\ edge_users' = WindowedEdgeUsers(cohort_rows)
    /\ pc' = "window_counted"
    /\ UNCHANGED <<pathvars, weight, df_user_sorted, done_groups,
                   edge_trans, node_users, first_entries, G, restvars>>

\* Graph aufbauen
GraphAufbauen ==
    /\ pc = "window_counted"
    /\ G' = [nodes |-> [n \in {e[1] : e \in DOMAIN edge_users}
                            \cup {e[2] : e \in DOMAIN edge_users} |-> Empty],
             edges |-> [e \in DOMAIN edge_users |->
                          [weight |-> Cardinality(edge_users[e])]]]
    /\ pc' = "window_done"
    /\ UNCHANGED <<pathvars, weight, df_user_sorted, done_groups,
                   edge_users, edge_trans, node_users, first_entries, restvars>>

InitWindowed ==
    /\ pc = "window_load"
    /\ script = "make_windowed_graph"
    /\ SEEDS = {}
    /\ BAD = {}
    /\ scanned = <<>>
    /\ authors = {}
    /\ cout = <<>>
    /\ userlist = <<>>
    /\ max_lines_arg = <<>>
    /\ MAX_LINES = 0
    /\ USERS = {}
    /\ cohort_rows = <<>>
    /\ SEED_SUBS = {}
    /\ min_comments = 1
    /\ records = <<>>
    /\ seed_df = <<>>
    /\ agg = <<>>
    /\ out = <<>>
    /\ columns = {}
    /\ seed_subs_arg = <<>>
    /\ bins = FALSE
    /\ aggregate_bins = "not_written"
    /\ InitGraphVars

NextWindowed ==
    \/ LoadCohortLine
    \/ Sorting
    \/ CountingWindowedTransitions
    \/ GraphAufbauen

SpecWindowed == InitWindowed /\ [][NextWindowed]_vars

\* ------------------------------------------------------------ properties
\* What the records say, independently of the pipeline's tables.
RecordAuthors == {r.author : r \in Range(records)}
SeedTimes(a) == {r.created_utc : r \in {x \in Range(records) :
                     x.author = a /\ x.subreddit \in SEED_SUBS}}
HasT0(a) == SeedTimes(a) # {}
T0(a) == Min(SeedTimes(a))
PreEvents(a, c) == {i \in DOMAIN records :
                       /\ records[i].author = a
                       /\ records[i].subreddit = c
                       /\ records[i].created_utc < T0(a)}
SeedDfDone == pc \in {"exit_no_seed_poster", "pre_t0", "min_comments", "t0_rows",
                     "paths_written", "loop", "done"}
PreRowsDone == pc \in {"t0_rows", "paths_written", "loop", "done"}
PathsWritten == pc \in {"paths_written", "loop", "done"}
Sorted == pc \in {"loop", "done"}
RowsOf(tbl, a) == {i \in DOMAIN tbl : tbl[i].author = a}
T0RowsOf(tbl, a) == {i \in RowsOf(tbl, a) : tbl[i].subreddit \in SEED_SUBS}

\* C1: every author with an event in a seed community gets exactly one T0
\* row, in seed_df and in the table written, and its timestamp is the minimum
\* timestamp of that author's seed-community events.
C1_T0Minimality ==
    /\ SeedDfDone => \A a \in RecordAuthors : HasT0(a) =>
            /\ Cardinality(RowsOf(seed_df, a)) = 1
            /\ \A i \in RowsOf(seed_df, a) : seed_df[i].first_seed_ts = T0(a)
    /\ PathsWritten => \A a \in RecordAuthors : HasT0(a) =>
            /\ Cardinality(T0RowsOf(out, a)) = 1
            /\ \A i \in T0RowsOf(out, a) : out[i].first_ts_here = T0(a)

\* C1 witness: the paths are written for an author whose first seed event in
\* input order is not the earliest one.
C1_Witness ==
    /\ PathsWritten
    /\ \E i, j \in DOMAIN records :
          /\ i < j
          /\ records[i].author = records[j].author
          /\ records[i].subreddit \in SEED_SUBS
          /\ records[j].subreddit \in SEED_SUBS
          /\ records[j].created_utc < records[i].created_utc
          /\ \A k \in 1..(i - 1) : records[k].author # records[i].author

\* C2 as stated: every author with a T0 has exactly one step with
\* rel_days = 0 in the table written, and every step has rel_days >= 0.
C2_ExactlyOneZeroStep ==
    PathsWritten => \A a \in RecordAuthors : HasT0(a) =>
        /\ Cardinality({i \in RowsOf(out, a) : out[i].rel_days = 0}) = 1
        /\ \A i \in RowsOf(out, a) : out[i].rel_days >= 0

\* C2 amended: every author with a T0 has exactly one T0 step (the row in a
\* seed community, at T0, with rel_days = 0); every other step is a pre-T0
\* step with rel_days >= 0, and its rel_days is 0 exactly when it lies less
\* than one day (86400 s) before T0.
C2_OneT0StepRelDaysWhole ==
    PathsWritten => \A a \in RecordAuthors : HasT0(a) =>
        /\ Cardinality(T0RowsOf(out, a)) = 1
        /\ \A i \in T0RowsOf(out, a) :
              out[i].rel_days = 0 /\ out[i].first_ts_here = T0(a)
        /\ \A i \in RowsOf(out, a) \ T0RowsOf(out, a) :
              /\ out[i].first_ts_here < T0(a)
              /\ out[i].rel_days >= 0
              /\ out[i].rel_days = 0
                    <=> T0(a) - out[i].first_ts_here < SecondsPerDay

\* C2 witness: a written path with a pre-T0 step of rel_days = 0 and a
\* pre-T0 step of rel_days > 0.
C2_Witness ==
    /\ PathsWritten
    /\ \E a \in RecordAuthors :
          /\ HasT0(a)
          /\ \E i, j \in RowsOf(out, a) \ T0RowsOf(out, a) :
                out[i].rel_days = 0 /\ out[j].rel_days > 0

\* C3: whatever the --min-comments value, every author with a T0 is in the
\* table written with the T0 step, which has comment_count = 1 and
\* rel_days = 0.
C3_T0StepExempt ==
    PathsWritten => \A a \in RecordAuthors : HasT0(a) =>
        \E i \in RowsOf(out, a) :
            /\ out[i].subreddit \in SEED_SUBS
            /\ out[i].first_ts_here = T0(a)
            /\ out[i].comment_count = 1
            /\ out[i].rel_days = 0

\* C3 witness: with a threshold > 1 an author has pre-T0 events, all of them
\* filtered out, and the T0 step is the author's only row.
C3_Witness ==
    /\ PathsWritten
    /\ min_comments > 1
    /\ \E a \in RecordAuthors :
          /\ HasT0(a)
          /\ \E c \in Subs : PreEvents(a, c) # {}
          /\ Cardinality(RowsOf(out, a)) = 1

\* C4: for an author with a T0 and a community, a pre-T0 row exists iff the
\* author has an event there strictly before T0 and the number of such events
\* meets the threshold; the row is unique, first_ts_here is the earliest of
\* those events and comment_count their number.
C4_PreT0Rows ==
    PreRowsDone => \A a \in RecordAuthors : HasT0(a) => \A c \in Subs :
        LET rows == {i \in RowsOf(agg, a) : agg[i].subreddit = c}
            ev == PreEvents(a, c)
        IN  /\ rows # {} <=> (ev # {} /\ Cardinality(ev) >= min_comments)
            /\ Cardinality(rows) <= 1
            /\ \A i \in rows :
                  /\ agg[i].first_ts_here = Min({records[k].created_utc : k \in ev})
                  /\ agg[i].comment_count = Cardinality(ev)

\* C4 witness: a pre-T0 row of a community in which the author also has an
\* event at exactly T0, which the row does not count.
C4_Witness ==
    /\ PathsWritten
    /\ \E a \in RecordAuthors :
          /\ HasT0(a)
          /\ \E i \in RowsOf(agg, a) :
                /\ agg[i].comment_count = 1
                /\ \E k \in DOMAIN records :
                      /\ records[k].author = a
                      /\ records[k].subreddit = agg[i].subreddit
                      /\ records[k].created_utc = T0(a)

\* ---- the transition aggregator
TableAuthors == {r.author : r \in Range(out)}
Path(a) == SubsOf(df_user_sorted, a)
LastRowOf(a) == CHOOSE i \in RowsOf(df_user_sorted, a) :
                    \A j \in RowsOf(df_user_sorted, a) : j <= i
\* the positions i of the sorted table at which an author steps from row i to
\* row i + 1 along the edge e
Occurrences(e) ==
    {i \in 1..(Len(df_user_sorted) - 1) :
        /\ df_user_sorted[i].author = df_user_sorted[i + 1].author
        /\ <<df_user_sorted[i].subreddit, df_user_sorted[i + 1].subreddit>> = e}
AllEdges == {e \in Subs \X Subs : Occurrences(e) # {}}

\* C5 as stated: in the sorted table the steps of an author are in first_seen
\* order: of two steps of one author with different first_ts_here, the earlier
\* one comes first.
C5_SortedByFirstSeen ==
    Sorted => \A i, j \in DOMAIN df_user_sorted :
        (/\ df_user_sorted[i].author = df_user_sorted[j].author
         /\ df_user_sorted[i].first_ts_here < df_user_sorted[j].first_ts_here)
            => i < j

\* C6: on a table written by path reconstruction, the T0 step is the last step
\* of every author's sorted path, every earlier step lies before T0, and no
\* edge collected or written starts at a T0 step.
C6_T0StepLast ==
    /\ Sorted => \A a \in TableAuthors :
            /\ df_user_sorted[LastRowOf(a)].subreddit \in SEED_SUBS
            /\ df_user_sorted[LastRowOf(a)].first_ts_here = T0(a)
            /\ df_user_sorted[LastRowOf(a)].rel_days = 0
            /\ \A i \in RowsOf(df_user_sorted, a) \ {LastRowOf(a)} :
                  /\ df_user_sorted[i].subreddit \notin SEED_SUBS
                  /\ df_user_sorted[i].first_ts_here < T0(a)
    /\ \A e \in DOMAIN edge_users \cup DOMAIN G.edges : e[1] \notin SEED_SUBS

\* C6 witness: the graph is built from a path whose pre-T0 step has
\* rel_days = 0, and that step is the source of an edge into the T0 step.
C6_Witness ==
    /\ pc = "done"
    /\ \E a \in TableAuthors : \E i \in RowsOf(df_user_sorted, a) :
          /\ i # LastRowOf(a)
          /\ df_user_sorted[i].rel_days = 0
          /\ <<df_user_sorted[i].subreddit,
               df_user_sorted[LastRowOf(a)].subreddit>> \in DOMAIN G.edges

\* C7: every community of the table is a node; users_total is the number of
\* authors with the community in their path, first_entries the number of
\* authors whose sorted path starts with it; Scenario A gives X: 2 and 2,
\* S: 3 and 1, and the one edge X -> S with weight_users 2 and
\* weight_transitions 2.
C7_NodeAttributes ==
    pc = "done" =>
        /\ DOMAIN G.nodes = {r.subreddit : r \in Range(out)}
        /\ \A c \in DOMAIN G.nodes :
              /\ G.nodes[c].users_total =
                    Cardinality({a \in TableAuthors :
                        \E i \in RowsOf(out, a) : out[i].subreddit = c})
              /\ G.nodes[c].first_entries =
                    Cardinality({a \in TableAuthors : Path(a)[1] = c})
        /\ (records = ScenarioA /\ min_comments = 1) =>
              /\ G.nodes = (1 :> [users_total |-> 3, first_entries |-> 1]
                             @@ 3 :> [users_total |-> 2, first_entries |-> 2])
              /\ DOMAIN G.edges = {<<3, 1>>}
              /\ G.edges[<<3, 1>>].weight_users = 2
              /\ G.edges[<<3, 1>>].weight_transitions = 2

\* C7 witness: the graph of Scenario A is built.
C7_Witness == pc = "done" /\ records = ScenarioA /\ min_comments = 1

\* C8: the edges are the pairs some author steps along; weight_users is the
\* number of distinct authors stepping along the edge, weight_transitions the
\* number of such steps over all authors, weight the one of the two that
\* --weight selects; Scenario C gives weight_transitions 4, weight_users 2.
C8_EdgeWeights ==
    pc = "done" =>
        /\ DOMAIN G.edges = AllEdges
        /\ \A e \in DOMAIN G.edges :
              /\ G.edges[e].weight_users =
                    Cardinality({df_user_sorted[i].author : i \in Occurrences(e)})
              /\ G.edges[e].weight_transitions = Cardinality(Occurrences(e))
              /\ weight = "users" => G.edges[e].weight = G.edges[e].weight_users
              /\ weight = "transitions" =>
                    G.edges[e].weight = G.edges[e].weight_transitions
        /\ out = ScenarioC =>
              /\ G.edges[<<1, 2>>].weight_users = 2
              /\ G.edges[<<1, 2>>].weight_transitions = 4
              /\ G.edges[<<1, 2>>].weight = IF weight = "users" THEN 2 ELSE 4

\* C8 witness: the graph of Scenario C is built with --weight transitions.
C8_Witness == pc = "done" /\ out = ScenarioC /\ weight = "transitions"

\* C9: at every point of the aggregation and in the graph written, an edge has
\* no more distinct authors than transitions.
C9_UsersLeqTransitions ==
    /\ \A e \in DOMAIN edge_users :
          Cardinality(edge_users[e]) <= CounterGet(edge_trans, e)
    /\ \A e \in DOMAIN G.edges :
          G.edges[e].weight_users <= G.edges[e].weight_transitions

\* C9 witness: between two authors of the loop an edge has two distinct
\* authors' worth of steps and strictly more transitions than authors.
C9_Witness ==
    /\ pc = "loop"
    /\ 0 < done_groups
    /\ done_groups < Len(GroupAuthors(df_user_sorted))
    /\ \E e \in DOMAIN edge_users :
          Cardinality(edge_users[e]) < CounterGet(edge_trans, e)

\* the accumulators after the authors are aggregated in the given order
RECURSIVE AggregateIn(_, _)
AggregateIn(order, acc) ==
    IF order = <<>> THEN acc
    ELSE AggregateIn(Tail(order),
                     AggAuthor(acc, Head(order), Path(Head(order))))

EmptyAcc == [node_users |-> Empty, first_entries |-> Empty,
             edge_users |-> Empty, edge_trans |-> Empty]

AuthorOrders ==
    LET n == Len(GroupAuthors(df_user_sorted))
    IN  {p \in [1..n -> Range(GroupAuthors(df_user_sorted))] :
            \A i, j \in 1..n : p[i] = p[j] => i = j}

\* C10: aggregating the authors in any order gives the accumulators, and so
\* the node and edge attributes, that the loop gives.
C10_PermutationInvariant ==
    pc = "done" => \A order \in AuthorOrders :
        /\ AggregateIn(order, EmptyAcc) = Acc
        /\ BuildGraph(AggregateIn(order, EmptyAcc), weight) = G

\* C10 witness: a graph built from two authors who both make a transition and
\* start in different communities.
C10_Witness ==
    /\ pc = "done"
    /\ \E a, b \in TableAuthors :
          /\ a # b
          /\ Len(Path(a)) > 1
          /\ Len(Path(b)) > 1
          /\ Path(a)[1] # Path(b)[1]

\* C11: with a threshold m > 1 a community with fewer than m pre-T0 events of
\* an author is not in the author's path; an author whose path is the T0 step
\* alone is in no edge's author set, and is counted in users_total and
\* first_entries of the T0 community.
C11_FilteredPathNoEdge ==
    /\ (PathsWritten /\ min_comments > 1) =>
          \A a \in RecordAuthors : HasT0(a) => \A c \in Subs :
              Cardinality(PreEvents(a, c)) < min_comments =>
                  ~ \E i \in RowsOf(out, a) :
                        out[i].subreddit = c /\ out[i].first_ts_here < T0(a)
    /\ pc = "done" =>
          \A a \in TableAuthors : Cardinality(RowsOf(out, a)) = 1 =>
              LET t0sub == out[CHOOSE i \in RowsOf(out, a) : TRUE].subreddit
              IN  /\ \A e \in DOMAIN edge_users : a \notin edge_users[e]
                  /\ a \in node_users[t0sub]
                  /\ G.nodes[t0sub].users_total >= 1
                  /\ G.nodes[t0sub].first_entries =
                        Cardinality({b \in TableAuthors : Path(b)[1] = t0sub})
                  /\ Path(a) = <<t0sub>>
                  /\ (TableAuthors = {a}) => G.edges = Empty

\* C11 witness (Scenario B): threshold 2, an author with one pre-T0 event and
\* the T0 event; the graph has the T0 community as its only node and no edge.
C11_Witness ==
    /\ pc = "done"
    /\ min_comments = 2
    /\ Len(records) = 2
    /\ \E a \in RecordAuthors, c \in Subs : Cardinality(PreEvents(a, c)) = 1
    /\ Len(out) = 1
    /\ G.edges = Empty
    /\ \A c \in DOMAIN G.nodes :
          G.nodes[c] = [users_total |-> 1, first_entries |-> 1]

\* C12: an author without an event in a seed community has no row in seed_df,
\* in the pre-T0 rows or in the table written; the run stops before the paths
\* exactly when no author at all has a seed event.
C12_NoSeedNoRows ==
    /\ \A a \in RecordAuthors : ~ HasT0(a) =>
          /\ RowsOf(seed_df, a) = {}
          /\ RowsOf(agg, a) = {}
          /\ RowsOf(out, a) = {}
    /\ SeedDfDone =>
          (pc = "exit_no_seed_poster" <=> \A a \in RecordAuthors : ~ HasT0(a))

\* C12 witness: the paths are written from records in which one author has a
\* seed event and another author has only events elsewhere, some of them
\* earlier than the other author's T0.
C12_Witness ==
    /\ PathsWritten
    /\ \E a, b \in RecordAuthors :
          /\ HasT0(a)
          /\ ~ HasT0(b)
          /\ \E r \in Range(records) : r.author = b /\ r.created_utc < T0(a)

\* C13: a single bad input record never aborts path reconstruction: a line
\* that is not JSON, lacks a field or whose created_utc cannot be parsed as
\* an integer is skipped (the records read, and so the output, are those of
\* the input without the line), so the run never stops in the read loop.
\* The code skips the first kinds of line and stops with an uncaught
\* exception of int() on the last.
C13_BadRecordSkipped == pc # "error_int_created_utc"

\* the input read has no author with an event in a seed community
NoSeedPoster == \A a \in RecordAuthors : ~ HasT0(a)

\* C14 as stated: when the input has no author with a seed-community event,
\* path reconstruction completes normally and writes an empty table; it does
\* not end with a failure status.
C14_NoSeedPosterCompletes ==
    (SeedDfDone /\ NoSeedPoster) => pc # "exit_no_seed_poster"

\* C14 amended: when the input has no author with a seed-community event,
\* path reconstruction stops with SystemExit("Kein Seed-Poster gefunden.")
\* (exit status 1) right after seed_df is built: no table is computed, no
\* user_paths.csv is written, and nothing runs after it.
C14_NoSeedPosterExits ==
    /\ (SeedDfDone /\ NoSeedPoster) =>
          /\ pc = "exit_no_seed_poster"
          /\ seed_df = <<>> /\ agg = <<>> /\ out = <<>> /\ columns = {}
    /\ pc = "exit_no_seed_poster" => ~ ENABLED Next

\* C14 witness: the run has stopped on an input that has events, none of
\* them in a seed community.
C14_Witness ==
    /\ pc = "exit_no_seed_poster"
    /\ Len(records) >= 2
    /\ NoSeedPoster

\* every author of the path table has a single step (also: no rows at all)
SingleStepTable == \A a \in TableAuthors : Cardinality(RowsOf(out, a)) = 1

\* C15: given a path table with all its columns in which every author has a
\* single step, or with no rows, the graph build runs through without an
\* error state, collects no edge, and writes a graph with zero edges and one
\* node per community present, each with its number of authors as
\* users_total and as first_entries.
C15_ZeroEdgeGraph ==
    (columns = PathColumns /\ pc # "paths_csv" /\ SingleStepTable) =>
        /\ pc \in {"paths_written", "loop", "done"}
        /\ pc # "done" => ENABLED NextGraph
        /\ edge_users = Empty /\ edge_trans = Empty
        /\ pc = "done" =>
              /\ G.edges = Empty
              /\ DOMAIN G.nodes = {out[i].subreddit : i \in DOMAIN out}
              /\ \A s \in DOMAIN G.nodes :
                    LET n == Cardinality({i \in DOMAIN out : out[i].subreddit = s})
                    IN  G.nodes[s] = [users_total |-> n, first_entries |-> n]

\* C15 witness: the graph is written for a table of two single-step authors
\* in two communities; a second witness state is the graph of the empty table.
C15_Witness ==
    /\ pc = "done"
    /\ columns = PathColumns
    /\ SingleStepTable
    /\ Cardinality(TableAuthors) = 2
    /\ Cardinality({out[i].subreddit : i \in DOMAIN out}) = 2
    /\ G.edges = Empty

\* C16: when the seed set is empty after the blank entries are removed, path
\* reconstruction stops with SystemExit("Seed-Subreddit-Liste ist leer!") at
\* the seed list: the input files are never expanded, opened or read, nothing
\* is written, and nothing runs after the exit. The run stops there for no
\* other seed list.
C16_EmptySeedSetFatal ==
    /\ ParseSeedSubs(seed_subs_arg) = {} =>
          /\ pc \in {"seed_list", "exit_seed_list_empty"}
          /\ records = <<>> /\ seed_df = <<>> /\ out = <<>> /\ columns = {}
    /\ pc = "exit_seed_list_empty" =>
          /\ ParseSeedSubs(seed_subs_arg) = {}
          /\ ~ ENABLED Next

\* C16 witness: the run has stopped on a seed list of two blank entries.
C16_Witness ==
    /\ pc = "exit_seed_list_empty"
    /\ Len(seed_subs_arg) = 2
    /\ \A i \in DOMAIN seed_subs_arg : seed_subs_arg[i] = Blank

\* C17: when the path table lacks one of the columns author, subreddit,
\* rel_days, comment_count, the graph build stops while loading the data, with
\* SystemExit("CSV fehlt Spalten: ...") or, when first_ts_here is missing as
\* well, with the error of read_csv on that column: nothing is sorted or
\* aggregated, no graph is built or written, and nothing runs after the stop.
\* The build stops with the message on the columns in no other case.
C17_MissingColumnFatal ==
    LET required == {"author", "subreddit", "rel_days", "comment_count"}
    IN  /\ (~ (required \subseteq columns) /\ pc # "paths_csv") =>
              /\ pc \in {"paths_written", "exit_missing_columns", "error_parse_dates"}
              /\ pc = "error_parse_dates" => "first_ts_here" \notin columns
              /\ pc = "exit_missing_columns" => ~ ENABLED NextGraph
              /\ df_user_sorted = <<>> /\ done_groups = 0
              /\ node_users = Empty /\ first_entries = Empty
              /\ edge_users = Empty /\ edge_trans = Empty
              /\ G = [nodes |-> Empty, edges |-> Empty]
        /\ pc = "exit_missing_columns" => ~ (required \subseteq columns)

\* C17 witness: the build has stopped on a table of two rows that lacks
\* rel_days only.
C17_Witness ==
    /\ pc = "exit_missing_columns"
    /\ columns = PathColumns \ {"rel_days"}
    /\ Len(out) = 2

\* C18: when binning is requested and the path output is not empty, path
\* reconstruction completes and has then reported the buckets (written
\* aggregate_bins.csv). The code of compute_user_drift_paths completes without
\* the report; the code of user_drift_paths stops in the query of the report.
C18_BinsReported ==
    (bins /\ out # <<>>) =>
        /\ pc # "error_query_rel_days"
        /\ pc = "path_script_done" => aggregate_bins # "not_written"

\* the first event, in input order, of author a in a seed community at T0(a)
FirstT0Event(a) ==
    Min({i \in DOMAIN records : /\ records[i].author = a
                                /\ records[i].subreddit \in SEED_SUBS
                                /\ records[i].created_utc = T0(a)})

\* the (author, community) pairs with a pre-T0 row, and the authors with a T0
PreKeysFor(m) ==
    {k \in RecordAuthors \X {r.subreddit : r \in Range(records)} :
        /\ HasT0(k[1])
        /\ PreEvents(k[1], k[2]) # {}
        /\ Cardinality(PreEvents(k[1], k[2])) >= m}
PreKeys == PreKeysFor(min_comments)
T0Authors == {a \in RecordAuthors : HasT0(a)}

\* the one table that the event sequence, the seed set and the threshold
\* determine: the pre-T0 rows by (author, community), then the T0 rows by
\* author
TableFor(m) ==
    LET KeyAt(p) == CHOOSE k \in PreKeysFor(m) :
                        Cardinality({k2 \in PreKeysFor(m) : LexLess(k2, k)}) = p - 1
        AuthorAt(p) == CHOOSE a \in T0Authors :
                        Cardinality({b \in T0Authors : b < a}) = p - 1
        First(k) == Min({records[i].created_utc : i \in PreEvents(k[1], k[2])})
        pre == [p \in 1..Cardinality(PreKeysFor(m)) |->
                  [author |-> KeyAt(p)[1],
                   subreddit |-> KeyAt(p)[2],
                   first_ts_here |-> First(KeyAt(p)),
                   comment_count |-> Cardinality(PreEvents(KeyAt(p)[1], KeyAt(p)[2])),
                   rel_days |-> (T0(KeyAt(p)[1]) - First(KeyAt(p))) \div SecondsPerDay]]
        t0 == [p \in 1..Cardinality(T0Authors) |->
                  [author |-> AuthorAt(p),
                   subreddit |-> records[FirstT0Event(AuthorAt(p))].subreddit,
                   first_ts_here |-> T0(AuthorAt(p)),
                   comment_count |-> 1,
                   rel_days |-> 0]]
    IN  pre \o t0
TableOfInput == TableFor(min_comments)

\* C19: path reconstruction is a function of the event sequence in its order,
\* the seed set and the threshold, so two runs on the same input agree: the
\* T0 timestamp of an author is the minimum seed timestamp, the T0 community
\* is the community of the first event in input order among the author's seed
\* events at that timestamp (also when two seed communities tie), and the
\* table written is the one table determined by the input.
C19_DeterminedByInput ==
    /\ SeedDfDone => \A a \in T0Authors : \A i \in RowsOf(seed_df, a) :
            /\ seed_df[i].first_seed_ts = T0(a)
            /\ seed_df[i].seed_sub = records[FirstT0Event(a)].subreddit
    /\ PathsWritten => out = TableOfInput

\* C19 witness: the table is written for an author with two seed events in
\* different seed communities at the same, minimum, timestamp, the community
\* that sorts later coming first in the input.
C19_Witness ==
    /\ PathsWritten
    /\ \E a \in T0Authors : \E i, j \in DOMAIN records :
          /\ i < j
          /\ records[i].author = a /\ records[j].author = a
          /\ records[i].subreddit \in SEED_SUBS /\ records[j].subreddit \in SEED_SUBS
          /\ records[i].subreddit > records[j].subreddit
          /\ records[i].created_utc = T0(a) /\ records[j].created_utc = T0(a)
          /\ \E r \in T0RowsOf(out, a) : out[r].subreddit = records[i].subreddit

\* the authors outside the bad-users list with a seed-subreddit comment
\* anywhere in the lines scanned
SeedAuthorsAnywhere ==
    {ln.author : ln \in {x \in Range(scanned) :
        x.json /\ x.author \notin BAD /\ x.subreddit \in SEEDS}}

\* C20: when the scan has ended, the cohort file holds all comments of every
\* author who has a seed-subreddit comment anywhere in the lines scanned,
\* whatever their subreddit and whether they come before or after the
\* author's first seed-subreddit comment. The code writes a comment outside
\* the seed subreddits only when the author is already known.
C20_AllCommentsOfSeedAuthors ==
    pc = "cohort_done" =>
        \A i \in DOMAIN scanned :
            (scanned[i].json /\ scanned[i].author \in SeedAuthorsAnywhere) =>
                CohortRecord(scanned[i]) \in Range(cout)

\* what a dump filter writes for the lines it examines
WrittenFor(lines) ==
    IF script = "filter_seed"
    THEN SelectSeq(lines, LAMBDA ln :
             ln.json /\ ln.subreddit \in SEEDS /\ ln.author \notin BAD)
    ELSE LET kept == SelectSeq(lines, LAMBDA ln :
                         ln.json /\ ln.author \in USERS /\ ln.author \notin BAD)
         IN  [i \in DOMAIN kept |-> CohortRecord(kept[i])]

\* C21: with --max-lines N > 0, when the filter stops at the limit it has
\* read exactly N lines and has written what the first N lines give, the
\* N-th line included. The code stops when it reads the N-th line, before
\* examining it.
C21_FirstNLinesExamined ==
    (pc \in {"filter_break", "filter_done"} /\ MAX_LINES # NoLimit
        /\ Len(scanned) >= MAX_LINES) =>
        /\ Len(scanned) = MAX_LINES
        /\ cout = WrittenFor(SubSeq(scanned, 1, MAX_LINES))

\* C22: the seed filter run without --max-lines, or with --max-lines 0, makes
\* the full pass: the scan never stops at a limit, and at the end every
\* seed-subreddit comment of the dump (of an author that is not ignored) is
\* written. The code has the default 200_000, so without the option the scan
\* stops at that line.
C22_FullPassWithoutMaxLines ==
    (script = "filter_seed" /\ (max_lines_arg = <<>> \/ max_lines_arg = <<0>>)) =>
        /\ pc # "filter_break"
        /\ pc = "filter_done" => cout = WrittenFor(scanned)

\* C23: in each of the three dump filters, for every stream and order of
\* lines, no line written to the output has an author of the bad-users list,
\* and no such name is among the authors collected or in the userlist written.
C23_IgnoredUsersExcluded ==
    /\ \A i \in DOMAIN cout : cout[i].author \notin BAD
    /\ authors \cap BAD = {}
    /\ \A i \in DOMAIN userlist : userlist[i] \notin BAD

\* C23 witness: the one-pass filter has ended on a stream in which an ignored
\* user has a seed-subreddit comment and then a comment elsewhere, and in
\* which another author was written and listed.
C23_Witness ==
    /\ pc = "cohort_done"
    /\ \E i, j \in DOMAIN scanned :
          /\ i < j
          /\ scanned[i].json /\ scanned[j].json
          /\ scanned[i].author \in BAD /\ scanned[j].author = scanned[i].author
          /\ scanned[i].subreddit \in SEEDS /\ scanned[j].subreddit \notin SEEDS
    /\ cout # <<>>
    /\ userlist # <<>>

\* line i of the stream is a comment of an author that is not ignored
Comment(i) == scanned[i].json /\ scanned[i].author \notin BAD

\* the lines of the stream the one-pass filter is to write: the seed-subreddit
\* comments, and the comments elsewhere with an earlier seed-subreddit comment
\* of the same author
ToCohort(i) ==
    /\ Comment(i)
    /\ \/ scanned[i].subreddit \in SEEDS
       \/ \E j \in 1..(i - 1) : /\ Comment(j)
                                 /\ scanned[j].author = scanned[i].author
                                 /\ scanned[j].subreddit \in SEEDS

BeforeInUserSequence(i, j) ==
    /\ Comment(i)
    /\ Comment(j)
    /\ scanned[i].author = scanned[j].author
    /\ \/ scanned[i].created_utc < scanned[j].created_utc
       \/ scanned[i].created_utc = scanned[j].created_utc /\ i < j

AdjacentInUserSequence(i, j) ==
    /\ BeforeInUserSequence(i, j)
    /\ ~ \E k \in DOMAIN scanned :
            BeforeInUserSequence(i, k) /\ BeforeInUserSequence(k, j)

\* the authors that went from community a to community b within seven days
DriftUsers(a, b) ==
    {scanned[i].author : i \in
        {i \in DOMAIN scanned : \E j \in DOMAIN scanned :
            /\ AdjacentInUserSequence(i, j)
            /\ scanned[i].subreddit = a
            /\ scanned[j].subreddit = b
            /\ a # b
            /\ 0 < scanned[j].created_utc - scanned[i].created_utc
            /\ scanned[j].created_utc - scanned[i].created_utc <= 7 * SecondsPerDay}}

\* C24: in the windowed drift graph an edge a->b exists iff some user has
\* two comments adjacent in that user's time-ordered comment sequence, the
\* first in a and the next in b, with a # b and a time difference above 0
\* and at most 7 days; the weight of the edge is the number of distinct
\* such users, so comments of different users never make an edge.
C24_WindowedEdges ==
    pc = "window_done" =>
        /\ DOMAIN G.edges \subseteq Subs \X Subs
        /\ \A a \in Subs : \A b \in Subs :
              /\ <<a, b>> \in DOMAIN G.edges <=> DriftUsers(a, b) # {}
              /\ <<a, b>> \in DOMAIN G.edges =>
                    G.edges[<<a, b>>].weight = Cardinality(DriftUsers(a, b))

\* C24 witness: the graph is built from four comments, two of each author,
\* both authors going from community 1 to community 2, one of them exactly
\* seven days later and with the other author's comment in between in the
\* file; the edge 1->2 has weight 2 and is the only edge.
C24_Witness ==
    /\ pc = "window_done"
    /\ Len(scanned) = 4
    /\ \A i \in DOMAIN scanned : Comment(i)
    /\ scanned[1].author = scanned[3].author
    /\ scanned[2].author = scanned[4].author
    /\ scanned[1].author # scanned[2].author
    /\ scanned[1].subreddit = 1 /\ scanned[3].subreddit = 2
    /\ scanned[2].subreddit = 1 /\ scanned[4].subreddit = 2
    /\ scanned[1].created_utc = 0 /\ scanned[3].created_utc = WINDOW_SEC
    /\ scanned[2].created_utc = WINDOW_SEC /\ scanned[4].created_utc = WINDOW_SEC + 1
    /\ DOMAIN G.edges = {<<1, 2>>}
    /\ G.edges[<<1, 2>>].weight = 2

\* ------------------------------------------ shape of a reconstructed table
\* C26: in a table written by path reconstruction every (author, community)
\* pair occurs at most once and every author has exactly one row in a seed
\* community, so no step before T0 lies in a seed community; the graph built
\* from the table has no self-loop and weight_users = weight_transitions on
\* every edge.
C26_PairsOnceNoSelfLoop ==
    /\ PathsWritten =>
          /\ \A i, j \in DOMAIN out :
                (out[i].author = out[j].author /\ out[i].subreddit = out[j].subreddit)
                    => i = j
          /\ \A a \in TableAuthors : Cardinality(T0RowsOf(out, a)) = 1
    /\ pc \in {"loop", "done"} =>
          /\ \A e \in DOMAIN edge_users \cup DOMAIN G.edges : e[1] # e[2]
          /\ \A e \in DOMAIN edge_users :
                Cardinality(edge_users[e]) = CounterGet(edge_trans, e)
          /\ \A e \in DOMAIN G.edges :
                G.edges[e].weight_users = G.edges[e].weight_transitions

\* C26 witness: with two seed communities, an author has events in both of
\* them and an earlier event elsewhere; the graph built from the table has
\* an edge.
C26_Witness ==
    /\ pc = "done"
    /\ Cardinality(SEED_SUBS) = 2
    /\ \E a \in TableAuthors :
          /\ \A c \in SEED_SUBS : \E i \in DOMAIN records :
                records[i].author = a /\ records[i].subreddit = c
          /\ Cardinality(RowsOf(out, a)) = 2
    /\ G.edges # Empty

\* ------------------------------------- the two path scripts side by side
\* user_paths.csv has been written by either path script
PathScriptWritten ==
    pc \in {"paths_written", "path_script_done", "error_query_rel_days"}

\* C27: without filtering the two path scripts agree: on the same events and
\* seed set, compute_user_drift_paths with --min-comments <= 1 and
\* user_drift_paths both write the table that keeps every pre-T0 community,
\* so they write the same user_paths rows.
C27_ScriptsAgreeUnfiltered ==
    (PathScriptWritten /\ (script = "user_drift_paths" \/ min_comments <= 1)) =>
        out = TableFor(0)

\* C27 witness: compute_user_drift_paths, run with --min-comments 0, has
\* written a pre-T0 row with a single comment, and the table is the one
\* user_drift_paths writes on these events.
C27_Witness ==
    /\ PathScriptWritten
    /\ script = "compute_user_drift_paths"
    /\ min_comments = 0
    /\ \E i \in DOMAIN out :
          out[i].subreddit \notin SEED_SUBS /\ out[i].comment_count = 1
    /\ out = RelDays(GroupByAuthorSubreddit(PreDf(records, seed_df)), seed_df)
                 \o T0Rows(seed_df)

\* ------------------------------------------------- first entries per node
\* the sum of first_entries over the nodes in S
RECURSIVE SumFirstEntries(_)
SumFirstEntries(S) ==
    IF S = {} THEN 0
    ELSE LET c == CHOOSE x \in S : TRUE
         IN  G.nodes[c].first_entries + SumFirstEntries(S \ {c})

\* C28: in the transition graph the first_entries of all nodes add up to the
\* number of distinct authors of the input path table, and no node has more
\* first entries than users.
C28_FirstEntriesSum ==
    pc = "done" =>
        /\ SumFirstEntries(DOMAIN G.nodes) = Cardinality(TableAuthors)
        /\ \A c \in DOMAIN G.nodes :
              G.nodes[c].first_entries <= G.nodes[c].users_total

\* C28 witness: the graph is built from a table of two authors whose paths
\* start in different communities, one of them a community the other author
\* visits later, and one author visits a community twice.
C28_Witness ==
    /\ pc = "done"
    /\ Cardinality(TableAuthors) = 2
    /\ SumFirstEntries(DOMAIN G.nodes) = 2
    /\ \E a, b \in TableAuthors :
          /\ a # b
          /\ Path(a)[1] # Path(b)[1]
          /\ \E k \in 2..Len(Path(b)) : Path(b)[k] = Path(a)[1]
    /\ \E c \in DOMAIN G.nodes :
          G.nodes[c].first_entries < G.nodes[c].users_total

====
